---- MODULE Spec2Model ----
(***************************************************************************)
(* LocalMember<T>: chained-pointer access to the memory of the own address *)
(* space (src/src/local_member.rs).  The accessor owns a vector of usize   *)
(* offsets; get_offset walks the chain, read / write transfer a T at the   *)
(* resolved address.                                                       *)
(*                                                                         *)
(* Memory is byte addressed.  usize is WordBytes bytes wide (a 16-bit      *)
(* target), all address arithmetic is modulo AddrMod.  Only the bytes in   *)
(* Live are allocated; every access outside Live is undefined behaviour    *)
(* and is modelled as a choice between a fault and an access that          *)
(* proceeds on garbage.                                                    *)
(***************************************************************************)
EXTENDS Integers, Sequences, FiniteSets

VARIABLES offsets,   \* LocalMember::offsets
          T,         \* the type parameter of the accessor: [size, signed]
          mem,       \* contents of the live bytes: [Live -> Byte]
          op,        \* the last call made on the accessor
          arg,       \* the value passed to the last write (0 otherwise)
          res,       \* what the last call returned: [kind, val, err]
          derefs,    \* addresses the last call read a usize from, in order
          access,    \* the T-sized transfer the last call attempted
          given,     \* history: the offsets last handed to new_offset / set_offset
          replaced,  \* history: the last set_offset replaced other, non-empty offsets
          prev       \* history: the call before a repeated get_offset or a read after write

vars == <<offsets, T, mem, op, arg, res, derefs, access, given, replaced, prev>>

----------------------------------------------------------------------------
(* Bounds and platform parameters *)

MaxLen == 3          \* longest offset chain handed to the accessor
LiveLen == 3         \* number of allocated bytes

ByteBits == 8
WordBytes == 2
ByteMod == 2 ^ ByteBits
AddrMod == ByteMod ^ WordBytes
MaxAddr == AddrMod - 1
Byte == 0 .. (ByteMod - 1)

LiveLo == ByteMod
Live == LiveLo .. (LiveLo + LiveLen - 1)

\* offsets the caller hands in: null, an allocated (odd) address and -1
OffsetVals == {0, LiveLo + 1, MaxAddr}
InitBytes == {0, 1}
Garbage == {0}
Types == {[size |-> 1, signed |-> TRUE], [size |-> 2, signed |-> FALSE]}

RECURSIVE SeqsUpTo(_, _)
SeqsUpTo(S, n) ==
    IF n = 0 THEN {<<>>}
    ELSE LET shorter == SeqsUpTo(S, n - 1)
         IN  shorter \cup {Append(s, x) : s \in {t \in shorter : Len(t) = n - 1}, x \in S}

OffsetSeqs == SeqsUpTo(OffsetVals, MaxLen)

MinT(t) == IF t.signed THEN -((ByteMod ^ t.size) \div 2) ELSE 0
MaxT(t) == IF t.signed THEN ((ByteMod ^ t.size) \div 2) - 1 ELSE (ByteMod ^ t.size) - 1
\* the values written: 0, 1, and -1 (signed) or the maximum (unsigned)
Values(t) == {0, 1, IF t.signed THEN -1 ELSE MaxT(t)}

----------------------------------------------------------------------------
(* Integers and bytes *)

\* an addition that saturates at the largest address instead of wrapping
saturating_add(a, b) == IF a + b > MaxAddr THEN MaxAddr ELSE a + b

wrapping_add(a, b) == (a + b) % AddrMod

Range(a, n) == {a + k : k \in 0 .. (n - 1)}
IsLive(a, n) == Range(a, n) \subseteq Live

RECURSIVE FromBytes(_)
FromBytes(bs) ==
    IF Len(bs) = 0 THEN 0 ELSE Head(bs) + ByteMod * FromBytes(Tail(bs))

ToBytes(x, n) == [k \in 1 .. n |-> (x \div (ByteMod ^ (k - 1))) % ByteMod]

LoadBytes(m, a, n) == [k \in 1 .. n |-> m[a + k - 1]]

read_unaligned_usize(m, a) == FromBytes(LoadBytes(m, a, WordBytes))

BytesOfT(v, t) == ToBytes(IF v < 0 THEN v + ByteMod ^ t.size ELSE v, t.size)

\* a load that zero-extends where T is signed
TOfBytesUnsigned(bs, t) == FromBytes(bs)

TOfBytes(bs, t) ==
    LET u == FromBytes(bs)
    IN  IF t.signed /\ u >= (ByteMod ^ t.size) \div 2 THEN u - ByteMod ^ t.size ELSE u

read_unaligned_T(m, a, t) == TOfBytes(LoadBytes(m, a, t.size), t)

\* a copy that stops one byte short of size_of::<T>()
copy_short(m, v, a, t) ==
    [b \in Live |-> IF b \in Range(a, t.size - 1) THEN BytesOfT(v, t)[b - a + 1] ELSE m[b]]

\* a copy of size_of::<usize>() bytes, whatever T is
copy_usize(m, v, a, t) ==
    [b \in Live |-> IF b \in Range(a, WordBytes)
                    THEN ToBytes(IF v < 0 THEN v + AddrMod ELSE v, WordBytes)[b - a + 1]
                    ELSE m[b]]

copy_nonoverlapping(m, v, a, t) ==
    [b \in Live |-> IF b \in Range(a, t.size) THEN BytesOfT(v, t)[b - a + 1] ELSE m[b]]

----------------------------------------------------------------------------
(* Results *)

NullDereference == "Would be a null dereference!"

Ok(v) == [kind |-> "Ok", val |-> v, err |-> ""]
Err(e) == [kind |-> "Err", val |-> 0, err |-> e]
Panic == [kind |-> "Panic", val |-> 0, err |-> ""]
Fault == [kind |-> "Fault", val |-> 0, err |-> ""]
Unit == Ok(0)

NoAccess == [kind |-> "none", addr |-> 0]
NoPrev == [op |-> "none", arg |-> 0, res |-> Unit, derefs |-> <<>>, access |-> NoAccess]
\* the call the accessor has just completed
LastCall == [op |-> op, arg |-> arg, res |-> res, derefs |-> derefs, access |-> access]

----------------------------------------------------------------------------
(* get_offset *)

\* a walk that never checks for null
IsNullNever(a) == FALSE

\* `if offset == 0` guarding each dereference
IsNull(a) == a = 0

\* `self.offsets.len() - 1` on usize: a panic with overflow checks, a wrap without
LenMinusOne(offs) == (Len(offs) + AddrMod - 1) % AddrMod

\* a last step that guards the final address like the intermediate ones
LastStepChecked(offs, offset, ds) ==
    IF LenMinusOne(offs) >= Len(offs)
    THEN {[res |-> Panic, derefs |-> ds]}
    ELSE IF wrapping_add(offset, offs[LenMinusOne(offs) + 1]) = 0
    THEN {[res |-> Err(NullDereference), derefs |-> ds]}
    ELSE {[res |-> Ok(wrapping_add(offset, offs[LenMinusOne(offs) + 1])), derefs |-> ds]}

\* `Ok(offset.wrapping_add(self.offsets[self.offsets.len() - 1]))`
LastStep(offs, offset, ds) ==
    IF LenMinusOne(offs) >= Len(offs)
    THEN {[res |-> Panic, derefs |-> ds]}
    ELSE {[res |-> Ok(wrapping_add(offset, offs[LenMinusOne(offs) + 1])), derefs |-> ds]}

\* `for i in 0..n1 { ... }` from iteration i on, with the accumulator `offset`
\* and the dereferences ds made so far
RECURSIVE Walk(_, _, _, _, _, _)
Walk(offs, m, n1, i, offset, ds) ==
    IF i >= n1 THEN LastStep(offs, offset, ds)
    ELSE IF i >= Len(offs) THEN {[res |-> Panic, derefs |-> ds]}
    ELSE LET a == wrapping_add(offset, offs[i + 1])
         IN  IF IsNull(a) THEN {[res |-> Err(NullDereference), derefs |-> ds]}
             ELSE IF IsLive(a, WordBytes)
             THEN Walk(offs, m, n1, i + 1, read_unaligned_usize(m, a), Append(ds, a))
             ELSE {[res |-> Fault, derefs |-> Append(ds, a)]}
                  \cup UNION {Walk(offs, m, n1, i + 1, g, Append(ds, a)) : g \in Garbage}

\* every outcome get_offset can have on the offsets offs and the memory m
get_offset(offs, m) ==
    UNION {IF overflow_checks /\ Len(offs) = 0
           THEN {[res |-> Panic, derefs |-> <<>>]}
           ELSE Walk(offs, m, LenMinusOne(offs), 0, 0, <<>>) : overflow_checks \in BOOLEAN}

----------------------------------------------------------------------------
(* The accessor *)

Running == res.kind \notin {"Panic", "Fault"}

\* LocalMember::new (no offsets) and LocalMember::new_offset
Init ==
    /\ offsets \in OffsetSeqs
    /\ given = offsets
    /\ replaced = FALSE
    /\ T \in Types
    /\ mem \in [Live -> InitBytes]
    /\ op = "new"
    /\ arg = 0
    /\ res = Unit
    /\ derefs = <<>>
    /\ access = NoAccess
    /\ prev = NoPrev

\* a set_offset that extends the stored offsets instead of replacing them
set_offset_extend(new_offsets) ==
    /\ Running
    /\ offsets' = offsets \o new_offsets
    /\ given' = new_offsets
    /\ replaced' = (offsets # <<>> /\ offsets # new_offsets)
    /\ op' = "set_offset"
    /\ arg' = 0
    /\ res' = Unit
    /\ derefs' = <<>>
    /\ access' = NoAccess
    /\ prev' = NoPrev
    /\ UNCHANGED <<T, mem>>

set_offset(new_offsets) ==
    /\ Running
    /\ offsets' = new_offsets
    /\ given' = new_offsets
    /\ replaced' = (offsets # <<>> /\ offsets # new_offsets)
    /\ op' = "set_offset"
    /\ arg' = 0
    /\ res' = Unit
    /\ derefs' = <<>>
    /\ access' = NoAccess
    /\ prev' = NoPrev
    /\ UNCHANGED <<T, mem>>

GetOffset ==
    /\ Running
    /\ \E o \in get_offset(offsets, mem) :
          /\ res' = o.res
          /\ derefs' = o.derefs
    /\ op' = "get_offset"
    /\ arg' = 0
    /\ access' = NoAccess
    /\ prev' = IF op = "get_offset" THEN LastCall ELSE NoPrev
    /\ UNCHANGED <<offsets, given, replaced, T, mem>>

\* what an out-of-bounds load of a T may yield when it does not fault
GarbageT(t) == {MaxT(t)}

Read ==
    /\ Running
    /\ \E o \in get_offset(offsets, mem) :
          /\ derefs' = o.derefs
          /\ IF o.res.kind # "Ok"
             THEN /\ res' = o.res
                  /\ access' = NoAccess
             ELSE /\ access' = [kind |-> "load", addr |-> o.res.val]
                  /\ IF IsLive(o.res.val, T.size)
                     THEN res' = Ok(read_unaligned_T(mem, o.res.val, T))
                     ELSE res' \in {Fault} \cup {Ok(g) : g \in GarbageT(T)}
    /\ op' = "read"
    /\ arg' = 0
    /\ prev' = IF op = "write" THEN LastCall ELSE NoPrev
    /\ UNCHANGED <<offsets, given, replaced, T, mem>>

Write(value) ==
    /\ Running
    /\ \E o \in get_offset(offsets, mem) :
          /\ derefs' = o.derefs
          /\ IF o.res.kind # "Ok"
             THEN /\ res' = o.res
                  /\ access' = NoAccess
                  /\ mem' = mem
             ELSE /\ access' = [kind |-> "store", addr |-> o.res.val]
                  /\ IF IsLive(o.res.val, T.size)
                     THEN /\ res' = Unit
                          /\ mem' = copy_nonoverlapping(mem, value, o.res.val, T)
                     ELSE \/ /\ res' = Fault
                             /\ mem' = mem
                          \/ /\ res' = Unit
                             /\ mem' = copy_nonoverlapping(mem, value, o.res.val, T)
    /\ op' = "write"
    /\ arg' = value
    /\ prev' = NoPrev
    /\ UNCHANGED <<offsets, given, replaced, T>>

Next ==
    \/ \E new_offsets \in OffsetSeqs : set_offset(new_offsets)
    \/ GetOffset
    \/ Read
    \/ \E value \in Values(T) : Write(value)

Spec == Init /\ [][Next]_vars

----------------------------------------------------------------------------
(* The chain walk as the specification states it, for the properties below *)

Allocated(a, n) == \A k \in 0 .. (n - 1) : (a + k) \in Live

RECURSIVE StoredUnsigned(_, _, _)
\* the little-endian unsigned integer held by the n bytes from address a on
StoredUnsigned(m, a, n) ==
    IF n = 0 THEN 0 ELSE m[a] + ByteMod * StoredUnsigned(m, a + 1, n - 1)

StoredT(m, a, t) ==
    LET u == StoredUnsigned(m, a, t.size)
    IN  IF t.signed /\ u > MaxT(t) THEN u - (MaxT(t) - MinT(t) + 1) ELSE u

\* byte k (from 0) of the two's-complement representation of v
ByteOf(v, t, k) == ((v + (MaxT(t) - MinT(t) + 1)) \div (ByteMod ^ k)) % ByteMod

RECURSIVE Acc(_, _, _)
\* the accumulator after offset i (from 1) has been added
Acc(offs, m, i) ==
    IF i = 1 THEN offs[1] % AddrMod
    ELSE (StoredUnsigned(m, Acc(offs, m, i - 1), WordBytes) + offs[i]) % AddrMod

RECURSIVE Clean(_, _, _)
\* the first k steps meet no zero accumulator and dereference allocated words
Clean(offs, m, k) ==
    IF k = 0 THEN TRUE
    ELSE /\ Clean(offs, m, k - 1)
         /\ Acc(offs, m, k) # 0
         /\ Allocated(Acc(offs, m, k), WordBytes)

Walkable(offs, m) == Len(offs) >= 1 /\ Clean(offs, m, Len(offs) - 1)

Resolved(offs, m) == Acc(offs, m, Len(offs))

\* some intermediate step i, reached over allocated words, has accumulator 0
NullAt(offs, m, i) ==
    /\ i \in 1 .. (Len(offs) - 1)
    /\ Clean(offs, m, i - 1)
    /\ Acc(offs, m, i) = 0

----------------------------------------------------------------------------
(* C1 *)

\* C1: on a non-empty chain whose intermediate accumulators are non-zero (and
\* address allocated words), get_offset returns Ok with the wrapping fold of
\* the offsets through memory, and reads exactly the n-1 intermediate words.
C1_FoldAddress ==
    (op = "get_offset" /\ Walkable(offsets, mem)) =>
        /\ res = Ok(Resolved(offsets, mem))
        /\ derefs = [i \in 1 .. (Len(offsets) - 1) |-> Acc(offsets, mem, i)]

C1_Witness ==
    /\ op = "get_offset"
    /\ Len(offsets) >= 3
    /\ Walkable(offsets, mem)
    /\ StoredUnsigned(mem, Acc(offsets, mem, 1), WordBytes) + offsets[2] >= AddrMod
    /\ res.kind = "Ok"
    /\ Len(derefs) = Len(offsets) - 1

----------------------------------------------------------------------------
(* C2 *)

InvalidChain == "InvalidChain"

\* C2: on an empty offset sequence get_offset returns the InvalidChain error
\* value, touches no memory and does not panic.
C2_EmptyIsInvalidChain ==
    (op = "get_offset" /\ offsets = <<>>) =>
        /\ res = Err(InvalidChain)
        /\ derefs = <<>>

----------------------------------------------------------------------------
(* C3 *)

\* C3: when the accumulator of an intermediate step i is 0, get_offset returns
\* the null-dereference error, having read only the words of the steps before
\* i and never address 0.
C3_NullDereference ==
    \A i \in 1 .. MaxLen :
        (op = "get_offset" /\ NullAt(offsets, mem, i)) =>
            /\ res = Err(NullDereference)
            /\ derefs = [j \in 1 .. (i - 1) |-> Acc(offsets, mem, j)]
            /\ \A j \in 1 .. Len(derefs) : derefs[j] # 0

C3_Witness ==
    /\ op = "get_offset"
    /\ NullAt(offsets, mem, 2)
    /\ res.kind = "Err"
    /\ Len(derefs) = 1

----------------------------------------------------------------------------
(* C7 *)

----------------------------------------------------------------------------
(* C4 *)

\* the write before this read resolved over allocated words to an allocated T
WroteLive ==
    /\ op = "read"
    /\ prev.op = "write"
    /\ prev.res.kind = "Ok"
    /\ prev.access.kind = "store"
    /\ Allocated(prev.access.addr, T.size)
    /\ \A j \in 1 .. Len(prev.derefs) : Allocated(prev.derefs[j], WordBytes)

\* the bytes written are none of the bytes of a pointer the chain reads
TargetApart ==
    \A j \in 1 .. Len(prev.derefs) :
        Range(prev.derefs[j], WordBytes) \cap Range(prev.access.addr, T.size) = {}

\* this read resolved over allocated words to an allocated T
ReadLive ==
    /\ op = "read"
    /\ access.kind = "load"
    /\ Allocated(access.addr, T.size)
    /\ \A j \in 1 .. Len(derefs) : Allocated(derefs[j], WordBytes)

\* C4 as claimed: whenever a chain resolves to an allocated T (for the write
\* and for the read), write(v) followed at once by read() returns Ok(v).
C4_RoundTrip == (WroteLive /\ ReadLive) => res = Ok(prev.arg)

\* C4 as amended: write(v) followed at once by read() returns Ok(v), provided
\* the T written overlaps none of the pointer words the chain dereferences.
C4_RoundTripApart == (WroteLive /\ TargetApart) => res = Ok(prev.arg)

C4_Witness ==
    /\ WroteLive
    /\ TargetApart
    /\ Len(offsets) >= 2
    /\ T.signed
    /\ prev.arg < 0
    /\ res = Ok(prev.arg)

----------------------------------------------------------------------------
(* C5 *)

\* C5: with the single offset [addr], addr an allocated T: get_offset returns
\* Ok(addr) and reads no memory, read returns the T stored at addr, and after
\* write(v) the bytes at addr are those of v.
C5_SingleOffset ==
    (Len(offsets) = 1 /\ Allocated(offsets[1], T.size)) =>
        /\ op = "get_offset" => (res = Ok(offsets[1]) /\ derefs = <<>>)
        /\ op = "read" =>
              /\ res = Ok(StoredT(mem, offsets[1], T))
              /\ access = [kind |-> "load", addr |-> offsets[1]]
              /\ derefs = <<>>
        /\ op = "write" =>
              /\ res = Unit
              /\ access = [kind |-> "store", addr |-> offsets[1]]
              /\ StoredT(mem, offsets[1], T) = arg
              /\ \A k \in 0 .. (T.size - 1) : mem[offsets[1] + k] = ByteOf(arg, T, k)

C5_Witness ==
    /\ Len(offsets) = 1
    /\ Allocated(offsets[1], T.size)
    /\ op = "write"
    /\ arg # 0
    /\ StoredT(mem, offsets[1], T) = arg

----------------------------------------------------------------------------
(* C6 *)

\* C6: the accessor never reads a pointer from, loads a T from or stores a T
\* to address 0, and get_offset never returns Ok(0).
C6_NullAvoidance ==
    /\ \A j \in 1 .. Len(derefs) : derefs[j] # 0
    /\ access.kind # "none" => access.addr # 0
    /\ (op = "get_offset" /\ res.kind = "Ok") => res.val # 0

----------------------------------------------------------------------------
(* C8 *)

ChainFails(offs, m) == offs = <<>> \/ \E i \in 1 .. MaxLen : NullAt(offs, m, i)

ChainError(offs) == IF offs = <<>> THEN InvalidChain ELSE NullDereference

\* C8: read and write return an error exactly when the chain is empty
\* (InvalidChain) or meets an intermediate 0 (NullDereference), with that
\* error; a failed read loads no T and a failed write stores nothing.
C8_ErrorsPropagate ==
    op \in {"read", "write"} =>
        /\ ChainFails(offsets, mem) =>
              (res = Err(ChainError(offsets)) /\ access = NoAccess)
        /\ res.kind = "Err" => ChainFails(offsets, mem)

----------------------------------------------------------------------------
(* C9 *)

\* C9: the stored offsets are always the ones last given; a get_offset that
\* directly follows a get_offset over allocated words returns the same
\* result, and a walkable chain resolves by the given offsets alone.
C9_OffsetsAsGiven ==
    /\ offsets = given
    /\ (op = "get_offset" /\ prev.op = "get_offset"
          /\ \A j \in 1 .. Len(prev.derefs) : Allocated(prev.derefs[j], WordBytes))
          => (res = prev.res /\ derefs = prev.derefs)
    /\ (op = "get_offset" /\ Walkable(given, mem)) => res = Ok(Resolved(given, mem))

C9_Witness ==
    /\ replaced
    /\ offsets = given
    /\ Len(given) >= 2
    /\ op = "get_offset"
    /\ prev.op = "get_offset"
    /\ res.kind = "Ok"
    /\ res = prev.res

----------------------------------------------------------------------------
(* C10 *)

\* C10: a write that returns Ok sets the T.size bytes from the resolved
\* address on to the bytes of the value and leaves every other byte and the
\* offsets as they were; get_offset and read leave memory as it was.
C10_Frame ==
    [][/\ (op' = "write" /\ res'.kind = "Ok") =>
             /\ \A b \in Live :
                   mem'[b] = IF b \in Range(access'.addr, T.size)
                             THEN ByteOf(arg', T, b - access'.addr)
                             ELSE mem[b]
             /\ offsets' = offsets
       /\ op' \in {"get_offset", "read"} => mem' = mem]_vars

C10_Witness ==
    /\ op = "write"
    /\ res.kind = "Ok"
    /\ Allocated(access.addr, T.size)
    /\ arg # 0
    /\ \E b \in Live : b \notin Range(access.addr, T.size) /\ mem[b] # 0

====
